---- MODULE Spec2Model ----
(***************************************************************************)
(* Model of Goblin's gl/program.js: the Program class, which fetches the   *)
(* vertex and fragment shader sources, compiles them, links and validates  *)
(* the program and records the locations of its active uniforms and        *)
(* attributes.                                                              *)
(*                                                                         *)
(* JavaScript is single threaded.  A task (the construction, the call of   *)
(* ready(), the settlement of a fetch, the arrival of a response body)     *)
(* runs only when the microtask queue is empty; promise reactions are      *)
(* microtasks, run in FIFO order.  The variable jobs is that queue.        *)
(*                                                                         *)
(* A JavaScript string is a sequence of tokens (TLA+ strings): paths and   *)
(* names are sequences of characters, a literal of the source is one       *)
(* token.  A Map is the sequence of its entries in insertion order.        *)
(***************************************************************************)
EXTENDS Integers, Sequences, FiniteSets, TLC

\* ---------------------------------------------------------------- bounds
\* number of calls of ready() the state has room for; Spec makes one
MaxCalls == 2
\* largest number of active resources the driver reports per class
MaxActive == 2
\* number of runs of qualifyAll() on the instance (SpecRequalify only)
MaxQualify == 2
\* largest component of a vector (SpecVec3 only)
MaxComponent == 1

\* ------------------------------------------------------------- constants
Undefined == 0

VERTEX_SHADER == "VERTEX_SHADER"
FRAGMENT_SHADER == "FRAGMENT_SHADER"
ACTIVE_UNIFORMS == "ACTIVE_UNIFORMS"
ACTIVE_ATTRIBUTES == "ACTIVE_ATTRIBUTES"

Stages == {VERTEX_SHADER, FRAGMENT_SHADER}
Classes == {ACTIVE_UNIFORMS, ACTIVE_ATTRIBUTES}
Calls == 1..MaxCalls

DEFAULT_SHADER_PATH == <<"/", "s", "h", "a", "d", "e", "r", "s", "/">>

SHADER_EXTENSIONS(type) ==
    IF type = VERTEX_SHADER THEN <<".", "v", "e", "r", "t">>
                            ELSE <<".", "f", "r", "a", "g">>

QUALIFYING_FUNCTION(parameter) ==
    IF parameter = ACTIVE_UNIFORMS THEN "Uniform" ELSE "Attrib"

\* ------------------------------------------------- inputs and the driver
\* arguments of the constructor: name and path, each possibly absent
NameArgs == { [has |-> FALSE, s |-> <<>>],
              [has |-> TRUE,  s |-> <<>>],
              [has |-> TRUE,  s |-> <<"b">>] }
PathArgs == { [has |-> FALSE, s |-> <<>>],
              [has |-> TRUE,  s |-> <<>>],
              [has |-> TRUE,  s |-> <<"/", "s">>],
              [has |-> TRUE,  s |-> <<"/", "s", "/">>] }
NoArgs == [name |-> [has |-> FALSE, s |-> <<>>], path |-> [has |-> FALSE, s |-> <<>>]]

\* info logs the driver writes for a shader that does not compile
Logs == { <<>>, <<"E1">>, <<"E2">> }
\* what getActiveUniform / getActiveAttrib returns for one index: null, or
\* an info with the name of the resource; loc is the location the context
\* reports for that name, -1 being the null / invalid location
Infos == { [null |-> TRUE,  name |-> <<>>,    loc |-> -1],
           [null |-> FALSE, name |-> <<"a">>, loc |-> 3],
           [null |-> FALSE, name |-> <<"b">>, loc |-> -1] }

ActiveLists == UNION { [1..n -> Infos] : n \in 0..MaxActive }

\* --------------------------------------------------------------- errors
Err(type, msg) == [type |-> type, msg |-> msg]
NoError == Err("none", <<>>)

\* --------------------------------------------------------------- Map
Keys(map) == { map[i].k : i \in 1..Len(map) }
MapHas(map, key) == key \in Keys(map)
MapGet(map, key) == map[CHOOSE i \in 1..Len(map) : map[i].k = key].v
MapSetAppends(map, key, value) == Append(map, [k |-> key, v |-> value])

\* Map.set: the value of an existing key is replaced in place
MapSet(map, key, value) ==
    IF MapHas(map, key)
    THEN [i \in 1..Len(map) |->
            IF map[i].k = key THEN [k |-> key, v |-> value] ELSE map[i]]
    ELSE Append(map, [k |-> key, v |-> value])

\* ---------------------------------------------------------------- state
VARIABLES
    ctor,         \* "none", "constructed", "threw"
    ctorArgs,     \* the arguments the constructor was called with
    ctorError,    \* the error the constructor threw
    _name, _path, _shaders, _program, _parameters,   \* fields of the instance
    nCalls,       \* number of calls of ready() so far
    task,         \* per call and stage: the promise createShader returned
    all,          \* per call: Promise.all(shaders)
    linked,       \* per call: .then(compileProgram)
    readyP,       \* per call: .then(qualifyAll), the promise ready() returns
    jobs,         \* microtask queue
    fetchLog,     \* the calls of fetch, in order
    glLog,        \* the calls on the context, in order
    glShaders,    \* context: shader objects, by handle
    glPrograms,   \* context: program objects, by handle
    failOrder,    \* per call: the stages whose promise rejected, in order
    vec3          \* math/vec3.js: two vectors and a call of copy

vars == <<ctor, ctorArgs, ctorError, _name, _path, _shaders, _program,
          _parameters, nCalls, task, all, linked, readyP, jobs, fetchLog,
          glLog, glShaders, glPrograms, failOrder, vec3>>

instVars == <<_name, _path, _shaders, _program, _parameters>>
ctorVars == <<ctor, ctorArgs, ctorError>>

\* a promise; seen is used by Promise.all only: the elements that have fulfilled
NoPromise == [state |-> "none", val |-> <<>>, err |-> NoError, seen |-> {}]
Pending == [state |-> "pending", val |-> <<>>, err |-> NoError, seen |-> {}]
Fulfilled(v) == [state |-> "fulfilled", val |-> v, err |-> NoError, seen |-> {}]
Rejected(e) == [state |-> "rejected", val |-> <<>>, err |-> e, seen |-> {}]
Settled(promise) == promise.state \in {"fulfilled", "rejected"}

\* a stage promise: phase is the position in the chain of createShader
NoTask == [phase |-> "idle", resp |-> "none", shader |-> Undefined, err |-> NoError]

Job(k, p, s) == [k |-> k, p |-> p, s |-> s]

\* math/vec3.js: no vector constructed, copy not called
NoVec3 == [made |-> 0, self |-> <<0, 0, 0>>, arg |-> <<0, 0, 0>>,
           given |-> <<0, 0, 0>>, called |-> FALSE, threw |-> "none",
           returned |-> "nothing"]

Init ==
    /\ ctor = "none"
    /\ ctorArgs = NoArgs
    /\ ctorError = NoError
    /\ _name = <<>>
    /\ _path = <<>>
    /\ _shaders = <<>>
    /\ _program = Undefined
    /\ _parameters = <<>>
    /\ nCalls = 0
    /\ task = [p \in Calls |-> [s \in Stages |-> NoTask]]
    /\ all = [p \in Calls |-> NoPromise]
    /\ linked = [p \in Calls |-> NoPromise]
    /\ readyP = [p \in Calls |-> NoPromise]
    /\ jobs = <<>>
    /\ fetchLog = <<>>
    /\ glLog = <<>>
    /\ glShaders = <<>>
    /\ glPrograms = <<>>
    /\ failOrder = [p \in Calls |-> <<>>]
    /\ vec3 = NoVec3

\* ----------------------------------------------------------- constructor
FalsyAbsentOnly(name) == ~name.has

\* !name, line 28: an absent name and the empty string are falsy
Falsy(name) == ~name.has \/ name.s = <<>>

EndsWithSlash(path) == Len(path) > 0 /\ path[Len(path)] = "/"

AlwaysAppendSlash(path) == path \o <<"/">>

\* lines 38-39
NormalizePath(path) == IF ~EndsWithSlash(path) THEN path \o <<"/">> ELSE path

NameRequired == Err("Error", <<"Name required in order to create a program.">>)

Constructor(name, path) ==
    /\ ctor = "none"
    /\ jobs = <<>>
    /\ ctorArgs' = [name |-> name, path |-> path]
    /\ IF Falsy(name)
       THEN /\ ctor' = "threw"
            /\ ctorError' = NameRequired
            /\ UNCHANGED instVars
       ELSE /\ ctor' = "constructed"
            /\ ctorError' = NoError
            /\ _name' = name.s
            /\ _shaders' = <<>>
            /\ _program' = Undefined
            /\ _parameters' = << [k |-> ACTIVE_UNIFORMS, v |-> <<>>],
                                 [k |-> ACTIVE_ATTRIBUTES, v |-> <<>>] >>
            /\ _path' = NormalizePath(IF path.has THEN path.s ELSE DEFAULT_SHADER_PATH)
                            \o name.s \o <<"/">>
    /\ UNCHANGED <<vec3, nCalls, task, all, linked, readyP, jobs, fetchLog,
                   glLog, glShaders, glPrograms, failOrder>>

\* ------------------------------------------------------------- ready()
File(type) == _path \o _name \o SHADER_EXTENSIONS(type)

FetchCall(p, type) == [p |-> p, type |-> type, file |-> File(type)]

\* ready(): both createShader calls run up to their fetch; the three
\* promises of the chain are created pending
Ready(p) ==
    /\ ctor = "constructed"
    /\ jobs = <<>>
    /\ nCalls = p - 1
    /\ nCalls' = p
    /\ fetchLog' = fetchLog \o << FetchCall(p, VERTEX_SHADER),
                                  FetchCall(p, FRAGMENT_SHADER) >>
    /\ task' = [task EXCEPT ![p] = [s \in Stages |-> [NoTask EXCEPT !.phase = "fetching"]]]
    /\ all' = [all EXCEPT ![p] = Pending]
    /\ linked' = [linked EXCEPT ![p] = Pending]
    /\ readyP' = [readyP EXCEPT ![p] = Pending]
    /\ UNCHANGED <<vec3, ctorVars, instVars, jobs, glLog, glShaders, glPrograms, failOrder>>

\* ------------------------------------------------- fetch and body read
FetchFailed == Err("TypeError", <<"Failed to fetch">>)
BodyFailed == Err("TypeError", <<"Failed to read the response body">>)

\* the promise of stage s rejects with e: the reaction of Promise.all is
\* queued behind rest, the microtasks still waiting
RejectTask(p, s, e, rest) ==
    /\ task' = [task EXCEPT ![p][s].phase = "rejected", ![p][s].err = e]
    /\ failOrder' = [failOrder EXCEPT ![p] = Append(@, s)]
    /\ jobs' = Append(rest, Job("allReact", p, s))

\* fetch(file) settles: with a response (also for a 404: fetch does not
\* reject on an HTTP status), or with a TypeError (transport error)
FetchSettles(p, s, outcome) ==
    /\ task[p][s].phase = "fetching"
    /\ jobs = <<>>
    /\ IF outcome = "error"
       THEN RejectTask(p, s, FetchFailed, jobs)
       ELSE /\ task' = [task EXCEPT ![p][s].phase = "reading", ![p][s].resp = outcome]
            /\ UNCHANGED <<failOrder, jobs>>
    /\ UNCHANGED <<vec3, ctorVars, instVars, nCalls, all, linked, readyP, fetchLog,
                   glLog, glShaders, glPrograms>>

\* response.text() settles: with the body, or with a TypeError
BodySettles(p, s, ok) ==
    /\ task[p][s].phase = "reading"
    /\ jobs = <<>>
    /\ IF ok
       THEN /\ task' = [task EXCEPT ![p][s].phase = "body"]
            /\ jobs' = Append(jobs, Job("createShader", p, s))
            /\ UNCHANGED failOrder
       ELSE RejectTask(p, s, BodyFailed, jobs)
    /\ UNCHANGED <<vec3, ctorVars, instVars, nCalls, all, linked, readyP, fetchLog,
                   glLog, glShaders, glPrograms>>

\* ------------------------------------------------------- context calls
GL(fn, p, h, arg, idx) == [fn |-> fn, p |-> p, h |-> h, arg |-> arg, idx |-> idx]

CompileErrorNoLog(log) == Err("Error", <<"Error compiling shader: ">>)

\* line 79; log is c.getShaderInfoLog(shader)
CompileError(log) == Err("Error", <<"Error compiling shader: ">> \o log)

\* the callback of createShader, lines 73-82, for the body of stage type;
\* status and log are the driver's answers for this shader
CompileNeverFails(status) == FALSE

\* !c.getShaderParameter(shader, c.COMPILE_STATUS), line 78
CompileFailed(status) == ~status

CreateShaderThen(p, type, status, log) ==
    /\ jobs # <<>>
    /\ Head(jobs) = Job("createShader", p, type)
    /\ LET shader == Len(glShaders) + 1
           calls == << GL("createShader", p, shader, <<type>>, 0),
                       GL("shaderSource", p, shader, <<task[p][type].resp>>, 0),
                       GL("compileShader", p, shader, <<>>, 0),
                       GL("getShaderParameter", p, shader, <<"COMPILE_STATUS">>, 0) >>
       IN  /\ glShaders' = Append(glShaders,
                [type |-> type, source |-> task[p][type].resp,
                 status |-> status, log |-> log])
           /\ IF CompileFailed(status)
              THEN /\ glLog' = glLog \o calls
                                \o << GL("getShaderInfoLog", p, shader, <<>>, 0) >>
                   /\ RejectTask(p, type, CompileError(log), Tail(jobs))
                   /\ UNCHANGED _shaders
              ELSE /\ glLog' = glLog \o calls
                   /\ _shaders' = MapSet(_shaders, type, shader)
                   /\ task' = [task EXCEPT ![p][type].phase = "fulfilled",
                                           ![p][type].shader = shader]
                   /\ jobs' = Append(Tail(jobs), Job("allReact", p, type))
                   /\ UNCHANGED failOrder
    /\ UNCHANGED <<vec3, ctorVars, _name, _path, _program, _parameters, nCalls, all,
                   linked, readyP, fetchLog, glPrograms>>

\* ----------------------------------------------------------- Promise.all
\* the values of Promise.all(shaders), in the order of the array
AllValues(p) == << task[p][VERTEX_SHADER].shader, task[p][FRAGMENT_SHADER].shader >>

AnyComplete(seen) == seen # {}

\* Promise.all fulfils when every element has fulfilled
AllComplete(seen) == seen = Stages

EveryRejection(p) == TRUE

\* Promise.all rejects with the first rejection only: a settled promise
\* does not change
FirstRejection(p) == all[p].state = "pending"

\* the reaction of Promise.all(shaders) to the settlement of one element:
\* the first rejection rejects it, the last fulfilment fulfils it
AllReact(p, s) ==
    /\ jobs # <<>>
    /\ Head(jobs) = Job("allReact", p, s)
    /\ IF task[p][s].phase = "rejected"
       THEN IF FirstRejection(p)
            THEN /\ all' = [all EXCEPT ![p] = Rejected(task[p][s].err)]
                 /\ jobs' = Append(Tail(jobs), Job("compileProgramSkipped", p, "-"))
            ELSE /\ jobs' = Tail(jobs)
                 /\ UNCHANGED all
       ELSE LET seen == all[p].seen \cup {s}
            IN  IF AllComplete(seen) /\ all[p].state = "pending"
                THEN /\ all' = [all EXCEPT ![p] = Fulfilled(AllValues(p))]
                     /\ jobs' = Append(Tail(jobs), Job("compileProgram", p, "-"))
                ELSE /\ all' = [all EXCEPT ![p].seen = seen]
                     /\ jobs' = Tail(jobs)
    /\ UNCHANGED <<vec3, ctorVars, instVars, nCalls, task, linked, readyP, fetchLog,
                   glLog, glShaders, glPrograms, failOrder>>

\* --------------------------------------------------------- compileProgram
\* line 93
LinkError == Err("Error", <<"Unable to ling program \"">> \o _name \o <<"\"">>)

ValidateErrorNoName == Err("Error", <<"Unable to validate program">>)

\* line 97
ValidateError == Err("Error", <<"Unable to validate program \"">> \o _name \o <<"\"">>)

LinkNeverFails(link) == FALSE

\* line 92: the LINK_STATUS query is false
LinkFailed(link) == ~link

ValidateNeverFails(valid) == FALSE

\* line 96: the VALIDATE_STATUS query is false
ValidateFailed(valid) == ~valid

NoActive == [c \in Classes |-> <<>>]

\* the answers of the driver for a program: the link status, the validate
\* status and, for a linked program, its active resources
DriverPrograms ==
    { [link |-> FALSE, valid |-> FALSE, active |-> NoActive] }
    \cup { [link |-> TRUE, valid |-> v, active |-> a] :
              v \in BOOLEAN, a \in [Classes -> ActiveLists] }

\* compileProgram(shaders), lines 85-98; link, valid and active are the
\* driver's answers for this program
LinkAndValidate(p, link, valid, active) ==
    /\ LET program == Len(glPrograms) + 1
           shaders == all[p].val
           linking == << GL("createProgram", p, program, <<>>, 0) >>
                      \o [i \in 1..Len(shaders) |->
                            GL("attachShader", p, program, <<>>, shaders[i])]
                      \o << GL("linkProgram", p, program, <<>>, 0),
                            GL("getProgramParameter", p, program, <<"LINK_STATUS">>, 0) >>
           validating == << GL("validateProgram", p, program, <<>>, 0),
                            GL("getProgramParameter", p, program, <<"VALIDATE_STATUS">>, 0) >>
       IN  /\ _program' = program
           /\ glPrograms' = Append(glPrograms,
                [attached |-> shaders, link |-> link,
                 validated |-> link, valid |-> link /\ valid, active |-> active])
           /\ IF LinkFailed(link)
              THEN /\ glLog' = glLog \o linking
                   /\ linked' = [linked EXCEPT ![p] = Rejected(LinkError)]
                   /\ jobs' = Append(Tail(jobs), Job("qualifyAllSkipped", p, "-"))
              ELSE /\ glLog' = glLog \o linking \o validating
                   /\ IF ValidateFailed(valid)
                      THEN /\ linked' = [linked EXCEPT ![p] = Rejected(ValidateError)]
                           /\ jobs' = Append(Tail(jobs), Job("qualifyAllSkipped", p, "-"))
                      ELSE /\ linked' = [linked EXCEPT ![p] = Fulfilled(<<Undefined>>)]
                           /\ jobs' = Append(Tail(jobs), Job("qualifyAll", p, "-"))
    /\ UNCHANGED <<vec3, ctorVars, _name, _path, _shaders, _parameters, nCalls, task,
                   all, readyP, fetchLog, glShaders, failOrder>>

\* the reaction .then(compileProgram) to the fulfilment of Promise.all
CompileProgram(p) ==
    /\ jobs # <<>>
    /\ Head(jobs) = Job("compileProgram", p, "-")
    /\ \E d \in DriverPrograms : LinkAndValidate(p, d.link, d.valid, d.active)

\* Promise.all(shaders) rejected: .then(compileProgram) has no rejection
\* handler, its promise rejects with the same error
CompileProgramSkipped(p) ==
    /\ jobs # <<>>
    /\ Head(jobs) = Job("compileProgramSkipped", p, "-")
    /\ linked' = [linked EXCEPT ![p] = Rejected(all[p].err)]
    /\ jobs' = Append(Tail(jobs), Job("qualifyAllSkipped", p, "-"))
    /\ UNCHANGED <<vec3, ctorVars, instVars, nCalls, task, all, readyP, fetchLog,
                   glLog, glShaders, glPrograms, failOrder>>

\* ----------------------------------------------------- qualifyAll, qualify
InfoIsNull == Err("TypeError", <<"info is null">>)

\* c.getUniformLocation / c.getAttribLocation (program, name)
GetLocation(program, parameter, name) ==
    LET list == glPrograms[program].active[parameter]
    IN  IF \E i \in 1..Len(list) : ~list[i].null /\ list[i].name = name
        THEN list[CHOOSE i \in 1..Len(list) : ~list[i].null /\ list[i].name = name].loc
        ELSE -1

LoopEndsEarly(idx, num) == idx + 1 >= num

\* line 117: the loop runs while idx < num
LoopEnds(idx, num) == idx >= num

\* the loop of qualify, lines 117-122, from index idx; st is the parameter
\* maps, the context calls made so far and whether info.name threw
RECURSIVE QualifyLoop(_, _, _, _, _)
QualifyLoop(p, parameter, idx, num, st) ==
    IF LoopEnds(idx, num) \/ st.threw
    THEN st
    ELSE LET p_func == QUALIFYING_FUNCTION(parameter)
             a_func == "getActive" \o p_func
             l_func == "get" \o p_func \o "Location"
             info == glPrograms[_program].active[parameter][idx + 1]
             asked == Append(st.log, GL(a_func, p, _program, <<>>, idx))
         IN  IF info.null
             THEN [st EXCEPT !.log = asked, !.threw = TRUE]
             ELSE LET location == GetLocation(_program, parameter, info.name)
                  IN  QualifyLoop(p, parameter, idx + 1, num,
                        [st EXCEPT
                           !.params = MapSet(@, parameter,
                                        MapSet(MapGet(@, parameter), info.name, location)),
                           !.log = Append(asked,
                                     GL(l_func, p, _program, info.name, 0))])

QualifyCountsAhead(p, parameter, st) ==
    LET num == Len(glPrograms[_program].active[parameter])
    IN  QualifyLoop(p, parameter, 0, num,
            [st EXCEPT !.log = << GL("getProgramParameter", p, _program,
                                     <<parameter>>, 0) >> \o @])

\* qualify(parameter), lines 109-123
Qualify(p, parameter, st) ==
    LET num == Len(glPrograms[_program].active[parameter])
    IN  QualifyLoop(p, parameter, 0, num,
            [st EXCEPT !.log = Append(@, GL("getProgramParameter", p, _program,
                                            <<parameter>>, 0))])

\* qualifyAll(), lines 100-107: both passes run in the callback; it returns
\* Promise.all([undefined, undefined]), or throws what qualify threw
QualifyAll(p) ==
    /\ jobs # <<>>
    /\ Head(jobs) = Job("qualifyAll", p, "-")
    /\ LET start == [params |-> _parameters, log |-> <<>>, threw |-> FALSE]
           uniforms == Qualify(p, ACTIVE_UNIFORMS, start)
           done == IF uniforms.threw THEN uniforms
                   ELSE Qualify(p, ACTIVE_ATTRIBUTES, uniforms)
       IN  /\ _parameters' = done.params
           /\ glLog' = glLog \o done.log
           /\ IF done.threw
              THEN /\ readyP' = [readyP EXCEPT ![p] = Rejected(InfoIsNull)]
                   /\ jobs' = Tail(jobs)
              ELSE /\ jobs' = Append(Tail(jobs), Job("qualifyAllReturned", p, "-"))
                   /\ UNCHANGED readyP
    /\ UNCHANGED <<vec3, ctorVars, _name, _path, _shaders, _program, nCalls, task, all,
                   linked, fetchLog, glShaders, glPrograms, failOrder>>

\* the promise qualifyAll returned fulfils with the results of the two
\* calls of qualify, which returns nothing; ready()'s promise follows it
QualifyAllNeverReturns(p) ==
    /\ jobs # <<>>
    /\ Head(jobs) = Job("qualifyAllReturned", p, "-")
    /\ jobs' = Tail(jobs)
    /\ UNCHANGED <<vec3, ctorVars, instVars, nCalls, task, all, linked, readyP,
                   fetchLog, glLog, glShaders, glPrograms, failOrder>>

QualifyAllReturned(p) ==
    /\ jobs # <<>>
    /\ Head(jobs) = Job("qualifyAllReturned", p, "-")
    /\ readyP' = [readyP EXCEPT ![p] = Fulfilled(<<Undefined, Undefined>>)]
    /\ jobs' = Tail(jobs)
    /\ UNCHANGED <<vec3, ctorVars, instVars, nCalls, task, all, linked, fetchLog,
                   glLog, glShaders, glPrograms, failOrder>>

\* .then(compileProgram) rejected: .then(qualifyAll) has no rejection
\* handler, ready()'s promise rejects with the same error
QualifyAllSkipped(p) ==
    /\ jobs # <<>>
    /\ Head(jobs) = Job("qualifyAllSkipped", p, "-")
    /\ readyP' = [readyP EXCEPT ![p] = Rejected(linked[p].err)]
    /\ jobs' = Tail(jobs)
    /\ UNCHANGED <<vec3, ctorVars, instVars, nCalls, task, all, linked, fetchLog,
                   glLog, glShaders, glPrograms, failOrder>>

\* -------------------------------------------------------- specifications
Microtask(p) ==
    \/ \E s \in Stages :
          \/ \E log \in Logs : CreateShaderThen(p, s, FALSE, log)
          \/ CreateShaderThen(p, s, TRUE, <<>>)
    \/ \E s \in Stages : AllReact(p, s)
    \/ CompileProgram(p)
    \/ CompileProgramSkipped(p)
    \/ QualifyAll(p)
    \/ QualifyAllReturned(p)
    \/ QualifyAllSkipped(p)

Network(p) ==
    \/ \E s \in Stages, outcome \in {"ok", "notfound", "error"} : FetchSettles(p, s, outcome)
    \/ \E s \in Stages, ok \in BOOLEAN : BodySettles(p, s, ok)

\* one instance, ready() called at most once
Next ==
    \/ \E name \in NameArgs, path \in PathArgs : Constructor(name, path)
    \/ Ready(1)
    \/ Network(1)
    \/ Microtask(1)

Spec == Init /\ [][Next]_vars

\* ------------------------------------------------- ready() called again
\* the answers of the driver explored when ready() is called twice: a
\* program that does not link, one that does not validate, and one with a
\* uniform and an attribute
FewDriverPrograms ==
    { d \in DriverPrograms :
        d.link => /\ d.active[ACTIVE_UNIFORMS] = << [null |-> FALSE, name |-> <<"a">>, loc |-> 3] >>
                  /\ d.active[ACTIVE_ATTRIBUTES] = << [null |-> FALSE, name |-> <<"b">>, loc |-> -1] >> }

\* CompileProgram for these answers
CompileProgramFew(p) ==
    /\ jobs # <<>>
    /\ Head(jobs) = Job("compileProgram", p, "-")
    /\ \E d \in FewDriverPrograms : LinkAndValidate(p, d.link, d.valid, d.active)

MicrotaskReentrant(p) ==
    \/ \E s \in Stages :
          \/ CreateShaderThen(p, s, FALSE, <<"E1">>)
          \/ CreateShaderThen(p, s, TRUE, <<>>)
    \/ \E s \in Stages : AllReact(p, s)
    \/ CompileProgramFew(p)
    \/ CompileProgramSkipped(p)
    \/ QualifyAll(p)
    \/ QualifyAllReturned(p)
    \/ QualifyAllSkipped(p)

\* one instance with the default path; nothing in ready() keeps the caller
\* from calling it a second time, while the first pipeline runs or later
NextReentrant ==
    \/ Constructor([has |-> TRUE, s |-> <<"b">>], [has |-> FALSE, s |-> <<>>])
    \/ \E p \in 1..2 : Ready(p) \/ Network(p) \/ MicrotaskReentrant(p)

SpecReentrant == Init /\ [][NextReentrant]_vars

\* ---------------------------------------------- qualifyAll() called again
\* the runs of qualifyAll so far: each starts by asking for ACTIVE_UNIFORMS
QualifyRuns ==
    Cardinality({ i \in 1..Len(glLog) :
                    glLog[i].fn = "getProgramParameter"
                      /\ glLog[i].arg = <<ACTIVE_UNIFORMS>> })

\* the caller runs qualifyAll() again, lines 100-107, on the instance whose
\* pipeline has linked and introspected the program; it is not a call of
\* ready(), the context calls are logged for call 0
QualifyAllAgain ==
    /\ jobs = <<>>
    /\ _program # Undefined
    /\ QualifyRuns >= 1
    /\ QualifyRuns < MaxQualify
    /\ LET start == [params |-> _parameters, log |-> <<>>, threw |-> FALSE]
           uniforms == Qualify(0, ACTIVE_UNIFORMS, start)
           done == IF uniforms.threw THEN uniforms
                   ELSE Qualify(0, ACTIVE_ATTRIBUTES, uniforms)
       IN  /\ _parameters' = done.params
           /\ glLog' = glLog \o done.log
    /\ UNCHANGED <<vec3, ctorVars, _name, _path, _shaders, _program, nCalls, task, all,
                   linked, readyP, jobs, fetchLog, glShaders, glPrograms, failOrder>>

NextRequalify == Next \/ QualifyAllAgain

SpecRequalify == Init /\ [][NextRequalify]_vars

\* the event loop runs a queued promise reaction before anything else, so a
\* reaction that stays queued is eventually run; nothing is assumed about the
\* network
FairSpec == Spec /\ WF_vars(Microtask(1))

\* ----------------------------------------------------------- math/vec3.js
progVars == <<ctor, ctorArgs, ctorError, _name, _path, _shaders, _program,
              _parameters, nCalls, task, all, linked, readyP, jobs, fetchLog,
              glLog, glShaders, glPrograms, failOrder>>

\* an argument of the Vec3 constructor: absent, or a number
Components == { [has |-> FALSE, n |-> 0] }
              \cup { [has |-> TRUE, n |-> n] : n \in 0..MaxComponent }

\* x || 0.0, lines 18-20
OrZero(x) == IF ~x.has \/ x.n = 0 THEN 0 ELSE x.n

\* new Vec3(x, y, z), lines 16-21: the first vector made is the receiver of
\* copy, the second its argument
Vec3Constructor(x, y, z) ==
    /\ vec3.made < 2
    /\ LET v == << OrZero(x), OrZero(y), OrZero(z) >>
       IN  vec3' = IF vec3.made = 0
                   THEN [vec3 EXCEPT !.made = 1, !.self = v]
                   ELSE [vec3 EXCEPT !.made = 2, !.arg = v, !.given = v]
    /\ UNCHANGED progVars

\* what the free identifier v of lines 29-31 denotes: nothing in vec3.js
\* declares it, so it is a global of the page if one exists
GlobalV == { [has |-> FALSE, _v |-> <<0, 0, 0>>] }
           \cup { [has |-> TRUE, _v |-> <<x, y, z>>] :
                    x \in 0..MaxComponent, y \in 0..MaxComponent, z \in 0..MaxComponent }

\* copy(v3), lines 28-33: the body reads v, not the parameter v3
Vec3Copy(v) ==
    /\ vec3.made = 2
    /\ ~vec3.called
    /\ vec3' = IF ~v.has
               THEN [vec3 EXCEPT !.called = TRUE, !.threw = "ReferenceError"]
               ELSE [vec3 EXCEPT !.called = TRUE, !.self = v._v, !.returned = "this"]
    /\ UNCHANGED progVars

NextVec3 ==
    \/ \E x \in Components, y \in Components, z \in Components : Vec3Constructor(x, y, z)
    \/ \E v \in GlobalV : Vec3Copy(v)

SpecVec3 == Init /\ [][NextVec3]_vars

\* ------------------------------------------------------------ properties
\* readers of the logs and of the context
IsLinkCall(e) == e.fn \in {"createProgram", "attachShader", "linkProgram"}

IsIntrospection(e) ==
    \/ e.fn \in {"getActiveUniform", "getActiveAttrib",
                 "getUniformLocation", "getAttribLocation"}
    \/ e.fn = "getProgramParameter"
         /\ e.arg \in {<<ACTIVE_UNIFORMS>>, <<ACTIVE_ATTRIBUTES>>}

\* before call i of the log, call p compiled a shader of stage s and read
\* a true COMPILE_STATUS for it
CompiledBefore(i, p, s) ==
    \E j \in 1..(i - 1) :
        /\ glLog[j].fn = "getShaderParameter"
        /\ glLog[j].p = p
        /\ glShaders[glLog[j].h].type = s
        /\ glShaders[glLog[j].h].status

\* before call i of the log, the status pname of the same program was read
\* and was true
StatusOkBefore(i, pname) ==
    \E j \in 1..(i - 1) :
        /\ glLog[j].fn = "getProgramParameter"
        /\ glLog[j].arg = <<pname>>
        /\ glLog[j].h = glLog[i].h
        /\ IF pname = "LINK_STATUS" THEN glPrograms[glLog[j].h].link
                                    ELSE glPrograms[glLog[j].h].valid

\* the shaders / programs call p created
ShadersOf(p, s) ==
    { glLog[i].h : i \in { j \in 1..Len(glLog) :
         glLog[j].fn = "createShader" /\ glLog[j].p = p /\ glLog[j].arg = <<s>> } }
ProgramsOf(p) ==
    { glLog[i].h : i \in { j \in 1..Len(glLog) :
         glLog[j].fn = "createProgram" /\ glLog[j].p = p } }

Introspected(p) == \E i \in 1..Len(glLog) : glLog[i].p = p /\ IsIntrospection(glLog[i])
LinkAttempted(p) == \E i \in 1..Len(glLog) : glLog[i].p = p /\ IsLinkCall(glLog[i])

\* C1: the instance holds a program handle only if both stages compiled and
\* the program linked and validated; once ready() has rejected it holds none
C1_ProgramOnlyWhenLinkedAndValid ==
    /\ _program # Undefined =>
          /\ \A s \in Stages : MapHas(_shaders, s) /\ glShaders[MapGet(_shaders, s)].status
          /\ glPrograms[_program].link
          /\ glPrograms[_program].valid
    /\ \A p \in Calls : readyP[p].state = "rejected" => _program = Undefined

\* C2: a link call is made only after both stages of the same call of
\* ready() have compiled with a true COMPILE_STATUS, and an introspection
\* call only after a true LINK_STATUS and a true VALIDATE_STATUS were read
\* for the same program
C2_LinkAfterCompileIntrospectAfterValidate ==
    \A i \in 1..Len(glLog) :
        /\ IsLinkCall(glLog[i]) =>
              \A s \in Stages : CompiledBefore(i, glLog[i].p, s)
        /\ IsIntrospection(glLog[i]) =>
              StatusOkBefore(i, "LINK_STATUS") /\ StatusOkBefore(i, "VALIDATE_STATUS")

\* the fragment fetch completed first, the program was linked and both
\* kinds of resources were looked up
C2_Witness ==
    /\ Len(glShaders) = 2
    /\ glShaders[1].type = FRAGMENT_SHADER
    /\ \E i \in 1..Len(glLog) : glLog[i].fn = "getUniformLocation"
    /\ \E i \in 1..Len(glLog) : glLog[i].fn = "getAttribLocation"

\* C3 as stated: the promise of ready() is settled once, and the value it
\* resolves with is the program handle
C3_ResolvesOnceWithProgramHandle ==
    /\ [][\A p \in Calls : Settled(readyP[p]) => readyP'[p] = readyP[p]]_vars
    /\ [](\A p \in Calls :
            readyP[p].state = "fulfilled" => readyP[p].val = <<_program>>)

\* C3, amended: the promise of ready() is never settled a second time (so
\* never both resolved and rejected); when it resolves, both stages have
\* compiled, _program is the program this call linked and validated, and
\* the value is the array of the results of the two calls of qualify,
\* [undefined, undefined]
C3_ResolvesOnceWithQualifyResults ==
    /\ [][\A p \in Calls : Settled(readyP[p]) => readyP'[p] = readyP[p]]_vars
    /\ [](\A p \in Calls :
            readyP[p].state = "fulfilled" =>
               /\ readyP[p].val = <<Undefined, Undefined>>
               /\ _program \in ProgramsOf(p)
               /\ glPrograms[_program].link
               /\ glPrograms[_program].valid
               /\ \A s \in Stages :
                     /\ MapHas(_shaders, s)
                     /\ MapGet(_shaders, s) \in ShadersOf(p, s)
                     /\ glShaders[MapGet(_shaders, s)].status)

\* ready() has resolved for a program with active resources
C3_Witness ==
    /\ readyP[1].state = "fulfilled"
    /\ _program # Undefined
    /\ \A c \in Classes : Len(glPrograms[_program].active[c]) > 0

\* the fetch of stage s of call p failed: no resource (404), or a transport
\* error of the fetch or of the body read
FetchFailure(p, s) ==
    \/ task[p][s].resp = "notfound"
    \/ task[p][s].phase = "rejected"
         /\ task[p][s].err.type = "TypeError"

\* C4: when the fetch of a source fails, no substitute content is compiled,
\* no program handle is created or stored, and ready() rejects with a
\* ShaderSourceUnavailable error
C4_FetchFailureGivesShaderSourceUnavailable ==
    /\ \A i \in 1..Len(glLog) :
          glLog[i].fn = "shaderSource" => glLog[i].arg # <<"notfound">>
    /\ \A p \in Calls :
          (\E s \in Stages : FetchFailure(p, s)) =>
             /\ ProgramsOf(p) = {}
             /\ _program = Undefined
             /\ readyP[p].state # "fulfilled"
             /\ readyP[p].state = "rejected" =>
                   readyP[p].err.type = "ShaderSourceUnavailable"

\* the stage of a shader, as line 74 words it
StageWord(type) == IF type = VERTEX_SHADER THEN "vertex" ELSE "fragment"

IdentifiesStage(e, type) ==
    \E i \in 1..Len(e.msg) : e.msg[i] \in {type, StageWord(type)}

CompileFailedFor(p, s) == \E h \in ShadersOf(p, s) : ~glShaders[h].status

\* the error line 79 throws for the shader of stage s of call p
CompileErrorOf(p, s) ==
    { [type |-> "Error", msg |-> <<"Error compiling shader: ">> \o glShaders[h].log] :
        h \in ShadersOf(p, s) }

\* C5 as stated: the vertex source does not compile and the fragment stage
\* succeeds: no link is attempted, ready() rejects with the compilation
\* error carrying the info log of the vertex shader, and that error
\* identifies the stage VERTEX
C5_VertexCompileErrorIdentifiesStage ==
    \A p \in Calls :
        CompileFailedFor(p, VERTEX_SHADER) =>
           /\ ~LinkAttempted(p)
           /\ (task[p][FRAGMENT_SHADER].phase = "fulfilled" /\ jobs = <<>>) =>
                 /\ readyP[p].state = "rejected"
                 /\ readyP[p].err \in CompileErrorOf(p, VERTEX_SHADER)
                 /\ IdentifiesStage(readyP[p].err, VERTEX_SHADER)

\* C5, amended: the vertex source does not compile and the fragment stage
\* succeeds: no link is attempted and ready() rejects with the error
\* "Error compiling shader: " followed by the info log of the vertex
\* shader; the error does not name the stage
C5_VertexCompileErrorCarriesLog ==
    \A p \in Calls :
        CompileFailedFor(p, VERTEX_SHADER) =>
           /\ ~LinkAttempted(p)
           /\ (task[p][FRAGMENT_SHADER].phase = "fulfilled" /\ jobs = <<>>) =>
                 /\ readyP[p].state = "rejected"
                 /\ readyP[p].err \in CompileErrorOf(p, VERTEX_SHADER)
                 /\ ~IdentifiesStage(readyP[p].err, VERTEX_SHADER)
                 /\ ~IdentifiesStage(readyP[p].err, FRAGMENT_SHADER)

\* the vertex shader failed with a log, after the fragment shader compiled
C5_Witness ==
    /\ Len(glShaders) = 2
    /\ glShaders[1].type = FRAGMENT_SHADER
    /\ glShaders[1].status
    /\ ~glShaders[2].status
    /\ glShaders[2].log = <<"E1">>
    /\ readyP[1].state = "rejected"

\* C6: when a stage promise has rejected, ready() rejects with the error of
\* the stage that rejected first, and a later rejection does not replace it
C6_FirstFailureSurfaces ==
    /\ [][\A p \in Calls :
            readyP[p].state = "rejected" => readyP'[p] = readyP[p]]_vars
    /\ [](\A p \in Calls :
            failOrder[p] # <<>> =>
               /\ readyP[p].state # "fulfilled"
               /\ jobs = <<>> => readyP[p].state = "rejected"
               /\ readyP[p].state = "rejected" =>
                     readyP[p].err = task[p][failOrder[p][1]].err)

\* both stages failed, the fragment stage first, with different errors
C6_Witness ==
    /\ failOrder[1] = <<FRAGMENT_SHADER, VERTEX_SHADER>>
    /\ task[1][FRAGMENT_SHADER].err # task[1][VERTEX_SHADER].err
    /\ readyP[1].state = "rejected"
    /\ jobs = <<>>

\* the error of lines 93 / 97 for the name the instance was constructed with
NamedError(text) ==
    [type |-> "Error", msg |-> <<text>> \o ctorArgs.name.s \o <<"\"">>]

\* C7: both shaders compiled and LINK_STATUS is false: no introspection
\* call is made, both parameter maps stay empty, and ready() rejects with
\* the link error, which names the program
C7_LinkFailureRejectsWithoutIntrospection ==
    \A p \in Calls : \A h \in ProgramsOf(p) :
        ~glPrograms[h].link =>
           /\ ~Introspected(p)
           /\ \A c \in Classes : MapGet(_parameters, c) = <<>>
           /\ readyP[p].state # "fulfilled"
           /\ jobs = <<>> => readyP[p].state = "rejected"
           /\ readyP[p].state = "rejected" =>
                 /\ readyP[p].err = NamedError("Unable to ling program \"")
                 /\ ctorArgs.name.s # <<>>

\* the link of the program of two compiled shaders failed, ready() rejected
C7_Witness ==
    /\ Len(glPrograms) = 1
    /\ ~glPrograms[1].link
    /\ \A s \in Stages : task[1][s].phase = "fulfilled"
    /\ readyP[1].state = "rejected"

\* C8: validateProgram is called only after a true LINK_STATUS was read for
\* the program; when VALIDATE_STATUS is then false, no introspection call
\* is made and ready() rejects with the validation error, which names the
\* program
C8_ValidateAfterLinkAndFailureRejects ==
    /\ \A i \in 1..Len(glLog) :
          glLog[i].fn = "validateProgram" => StatusOkBefore(i, "LINK_STATUS")
    /\ \A p \in Calls : \A h \in ProgramsOf(p) :
          (glPrograms[h].validated /\ ~glPrograms[h].valid) =>
             /\ ~Introspected(p)
             /\ readyP[p].state # "fulfilled"
             /\ jobs = <<>> => readyP[p].state = "rejected"
             /\ readyP[p].state = "rejected" =>
                   /\ readyP[p].err = NamedError("Unable to validate program \"")
                   /\ ctorArgs.name.s # <<>>

\* the program linked, its validation failed, ready() rejected
C8_Witness ==
    /\ Len(glPrograms) = 1
    /\ glPrograms[1].link
    /\ glPrograms[1].validated
    /\ ~glPrograms[1].valid
    /\ \E i \in 1..Len(glLog) : glLog[i].fn = "validateProgram"
    /\ readyP[1].state = "rejected"

\* the names the context reports for class c of program h, index by index
ReportedNames(h, c) ==
    { glPrograms[h].active[c][i].name : i \in 1..Len(glPrograms[h].active[c]) }

\* C9: once ready() has resolved, the map of each class holds exactly the
\* names the context reports at the indices 0..count-1 of the program, each
\* with the location the context reports for it, and no key twice
C9_ParameterMapsAreTheActiveResources ==
    \A p \in Calls :
        readyP[p].state = "fulfilled" =>
           \A c \in Classes :
              LET list == glPrograms[_program].active[c]
                  map == MapGet(_parameters, c)
              IN  /\ Keys(map) = ReportedNames(_program, c)
                  /\ \A i \in 1..Len(list) :
                        /\ ~list[i].null
                        /\ \E j \in 1..Len(map) :
                              map[j] = [k |-> list[i].name, v |-> list[i].loc]
                  /\ \A i, j \in 1..Len(map) : map[i].k = map[j].k => i = j

\* ready() resolved for a program with two distinct uniforms and an
\* attribute name reported at two indices
C9_Witness ==
    /\ readyP[1].state = "fulfilled"
    /\ Len(MapGet(_parameters, ACTIVE_UNIFORMS)) = 2
    /\ Len(glPrograms[_program].active[ACTIVE_ATTRIBUTES]) = 2
    /\ Len(MapGet(_parameters, ACTIVE_ATTRIBUTES)) = 1

\* C10: a constructor called with an absent or empty name throws the
\* name-required error and no fetch or context call has been made; an
\* instance on which ready() was not called has made none either
C10_ConstructorThrowsBeforeIO ==
    /\ (ctor # "none" /\ (~ctorArgs.name.has \/ ctorArgs.name.s = <<>>)) =>
          /\ ctor = "threw"
          /\ ctorError = [type |-> "Error",
                          msg |-> <<"Name required in order to create a program.">>]
          /\ fetchLog = <<>>
          /\ glLog = <<>>
          /\ nCalls = 0
    /\ nCalls = 0 => fetchLog = <<>> /\ glLog = <<>>
    /\ ctor = "threw" => (~ctorArgs.name.has \/ ctorArgs.name.s = <<>>)

\* the constructor threw for the empty string
C10_Witness ==
    /\ ctor = "threw"
    /\ ctorArgs.name.has
    /\ ctorArgs.name.s = <<>>

\* the base path the constructor was given (the default when omitted),
\* without its trailing separator
BasePath ==
    LET path == IF ctorArgs.path.has THEN ctorArgs.path.s
                ELSE <<"/", "s", "h", "a", "d", "e", "r", "s", "/">>
    IN  IF Len(path) > 0 /\ path[Len(path)] = "/"
        THEN SubSeq(path, 1, Len(path) - 1)
        ELSE path

\* C11: every source location requested is P/N/N.vert or P/N/N.frag, with
\* one separator after the base path P, whether P was given with or without
\* its trailing separator (so both spellings request the same location);
\* an omitted path is '/shaders/'
C11_SourceLocationIsNormalized ==
    \A i \in 1..Len(fetchLog) :
        LET N == ctorArgs.name.s
            ext == IF fetchLog[i].type = VERTEX_SHADER
                   THEN <<".", "v", "e", "r", "t">>
                   ELSE <<".", "f", "r", "a", "g">>
        IN  /\ fetchLog[i].file = BasePath \o <<"/">> \o N \o <<"/">> \o N \o ext
            /\ ctorArgs.path.s \in { <<"/", "s">>, <<"/", "s", "/">> } =>
                  fetchLog[i].file = <<"/", "s", "/">> \o N \o <<"/">> \o N \o ext

\* the sources were requested for a path given with its trailing separator
C11_Witness ==
    /\ ctorArgs.path.has
    /\ ctorArgs.path.s = <<"/", "s", "/">>
    /\ Len(fetchLog) = 2
    /\ fetchLog[1].file = <<"/", "s", "/", "b", "/", "b", ".", "v", "e", "r", "t">>
    /\ fetchLog[2].file = <<"/", "s", "/", "b", "/", "b", ".", "f", "r", "a", "g">>

\* C12: a second run of qualifyAll on the same linked program, the driver
\* reporting the same active resources, leaves both parameter maps as the
\* first run left them
C12_RequalifyLeavesMaps ==
    [][QualifyAllAgain => _parameters' = _parameters]_vars

\* qualifyAll has run twice on a program with two uniforms and an attribute
C12_Witness ==
    /\ QualifyRuns = 2
    /\ Len(MapGet(_parameters, ACTIVE_UNIFORMS)) = 2
    /\ Len(MapGet(_parameters, ACTIVE_ATTRIBUTES)) >= 1

\* C13: a second call of ready() is refused with AlreadyBuildingOrBuilt:
\* it requests no source, makes no context call, and so leaves the shader
\* handles, the program handle and the parameter maps of the first call
C13_SecondReadyIsRefused ==
    nCalls >= 2 =>
       /\ readyP[2].state = "rejected"
       /\ readyP[2].err.type = "AlreadyBuildingOrBuilt"
       /\ \A i \in 1..Len(fetchLog) : fetchLog[i].p = 1
       /\ \A i \in 1..Len(glLog) : glLog[i].p = 1
       /\ _program \in ProgramsOf(1) \cup {Undefined}
       /\ \A s \in Stages : MapHas(_shaders, s) => MapGet(_shaders, s) \in ShadersOf(1, s)

\* C14: once ready() has rejected, every shader and program object the call
\* created on the context has been deleted
C14_FailedAttemptReleasesObjects ==
    \A p \in Calls :
        readyP[p].state = "rejected" =>
           /\ \A s \in Stages : \A h \in ShadersOf(p, s) :
                 \E i \in 1..Len(glLog) :
                     glLog[i].fn = "deleteShader" /\ glLog[i].h = h
           /\ \A h \in ProgramsOf(p) :
                 \E i \in 1..Len(glLog) :
                     glLog[i].fn = "deleteProgram" /\ glLog[i].h = h

\* C15: copy(v3) sets the three components of the receiver to those of v3,
\* leaves v3 as it was, returns the receiver and does not fail
C15_CopyCopiesItsArgument ==
    vec3.called =>
       /\ vec3.threw = "none"
       /\ vec3.self = vec3.given
       /\ vec3.arg = vec3.given
       /\ vec3.returned = "this"

\* C16: once the future returned by ready() has settled, no step changes the
\* shader-handle map, the program handle or the parameter maps, and no step
\* issues a graphics-context call, also when the other stage's fetch
\* completes after the failure of the first
C16_NothingAfterSettlement ==
    [][\A p \in Calls :
          Settled(readyP[p]) => /\ instVars' = instVars
                                /\ glLog' = glLog]_vars

\* C17: once link and validate have succeeded ready() never rejects, and an
\* active resource whose info is null or whose location is invalid is left
\* out of the parameter maps
C17_IntrospectionNeverFails ==
    \A p \in Calls :
       linked[p].state = "fulfilled" =>
          /\ readyP[p].state # "rejected"
          /\ \A parameter \in Classes :
                \A name \in Keys(MapGet(_parameters, parameter)) :
                   MapGet(MapGet(_parameters, parameter), name) # -1

IsShaderCall(e) ==
    e.fn \in {"createShader", "shaderSource", "compileShader",
              "getShaderParameter", "getShaderInfoLog"}

\* the step a context call belongs to: the compilation of one shader, the
\* linking of one program, or one introspection pass of one pipeline
StepOf(e) ==
    IF IsShaderCall(e) THEN << "createShader", e.p, e.h, "-" >>
    ELSE IF IsIntrospection(e)
         THEN << "qualify", e.p, e.h,
                 IF \/ e.fn \in {"getActiveUniform", "getUniformLocation"}
                    \/ e.arg = <<ACTIVE_UNIFORMS>>
                 THEN ACTIVE_UNIFORMS ELSE ACTIVE_ATTRIBUTES >>
         ELSE << "compileProgram", e.p, e.h, "-" >>

StepsAreContiguous ==
    \A i \in 1..Len(glLog) : \A j \in i..Len(glLog) :
       StepOf(glLog[i]) = StepOf(glLog[j]) =>
          \A k \in i..j : StepOf(glLog[k]) = StepOf(glLog[i])

\* no state lies inside a step: a created shader has had its status read, a
\* created program its link status
StepsAreWhole ==
    \A i \in 1..Len(glLog) :
       /\ glLog[i].fn = "createShader" =>
             \E j \in i..Len(glLog) :
                /\ glLog[j].fn = "getShaderParameter"
                /\ glLog[j].h = glLog[i].h
       /\ glLog[i].fn = "createProgram" =>
             \E j \in i..Len(glLog) :
                /\ glLog[j].fn = "getProgramParameter"
                /\ glLog[j].arg = <<"LINK_STATUS">>
                /\ glLog[j].h = glLog[i].h

\* C18: between the first and the last context call of one step (one shader's
\* compilation, one program's linking, one introspection pass) there is no
\* call of another stage, step or pipeline, and no state is reached in the
\* middle of a step
C18_StepsRunWithoutSuspension == StepsAreContiguous /\ StepsAreWhole

\* two pipelines ran on the instance; both compiled both stages and both
\* made their two introspection passes
C18_Witness ==
    /\ \A p \in 1..2 : \A st \in Stages : ShadersOf(p, st) # {}
    /\ \A p \in 1..2 : \A parameter \in Classes :
          \E i \in 1..Len(glLog) :
             /\ glLog[i].p = p
             /\ glLog[i].fn = "get" \o QUALIFYING_FUNCTION(parameter) \o "Location"

FetchesSettled(p) ==
    /\ nCalls >= p
    /\ \A s \in Stages : task[p][s].phase \in {"body", "fulfilled", "rejected"}

\* C20: under weak fairness of the pending callbacks, once both shader
\* sources have been delivered or have failed, the future returned by ready()
\* eventually settles
C20_ReadyEventuallySettles ==
    \A p \in Calls : FetchesSettled(p) ~> Settled(readyP[p])

\* both sources were delivered, one of them after the other stage had been
\* compiled, and the future of ready() is fulfilled
C20_Witness ==
    /\ FetchesSettled(1)
    /\ readyP[1].state = "fulfilled"
    /\ \A s \in Stages : task[1][s].phase = "fulfilled"

====
